---- MODULE Spec2Model ----
(***************************************************************************)
(* State-machine model of the Stock_Predict repository:                    *)
(*   src/stock.py     A-share acquisition pipeline (fetch, normalize,      *)
(*                    INSERT OR IGNORE store, incremental update, query,   *)
(*                    UI)                                                  *)
(*   src/US_stock.py  DataManager of the US dashboard                      *)
(*                                                                         *)
(* Dates are day numbers: the code keeps them as "%Y-%m-%d" strings, whose *)
(* lexicographic order is the calendar order, and "+ timedelta(days=1)" is *)
(* + 1.  SQL NULL / Python None is the value None.  The autoincrement id   *)
(* and create_time columns carry no information used below; a table is a   *)
(* bag of rows, so that two stored rows with equal columns stay two rows.   *)
(***************************************************************************)
EXTENDS Integers, Sequences, FiniteSets, Bags, TLC

VARIABLES
    db,          \* stock.py: table stock_zh_a_hist, a bag of rows
    call,        \* stock.py: the store-level call in progress and its result
    config,      \* stock.py: REQUEST_CONFIG
    fetch,       \* stock.py: the invocation of safe_fetch_stock_data
    proc,        \* stock.py: a call of process_stock_data, frame in and out
    sym,         \* stock.py: a call of process_symbols, string in, list out
    multi,       \* stock.py: a call of fetch_multiple_stocks
    ui,          \* stock.py: main, the page left by the last script run
    stocks,      \* US_stock.py: table stocks
    stock_info,  \* US_stock.py: table stock_info
    us           \* US_stock.py: the last DataManager call and its result

dbVars == <<db, call>>
fetchVars == <<config, fetch>>
usVars == <<stocks, stock_info, us>>

vars ==
    <<db, call, config, fetch, proc, sym, multi, ui, stocks, stock_info, us>>

-----------------------------------------------------------------------------
(* Bounds of the model *)

MaxDate == 2        \* provider dates are 1..MaxDate
MaxRows == 2        \* rows per frame
MaxFrames == 2      \* frames per df_list
MaxRetriesArg == 2  \* max_retries arguments are 0..MaxRetriesArg, or absent
MaxCols == 3        \* columns of a provider frame
MaxLen == 3         \* characters of a symbols string

-----------------------------------------------------------------------------
(* Values *)

None == "NULL"
NoDate == -1        \* MAX(date) over no rows (SQL NULL)

Symbols == {"600000"}
Periods == {"daily"}
AdjustOptions == {"qfq", "None"}
Prices == {10, 11}
Dates == 1..MaxDate
EarliestDate == 0
Today == (MaxDate - 1)..(MaxDate + 1)

SeqsUpTo(S, n) == UNION {[1..k -> S] : k \in 0..n}

Max(S) == CHOOSE m \in S : \A x \in S : x <= m

-----------------------------------------------------------------------------
(* stock.py: process_stock_data, metadata columns *)

MetaAdjust(adjust) == IF adjust # "" THEN adjust ELSE "None"

AddMetadata(raw, symbol, period, adjust) ==
    [i \in 1..Len(raw) |->
        [symbol |-> symbol, date |-> raw[i].date, close |-> raw[i].close,
         period |-> period, adjust |-> MetaAdjust(adjust)]]

RawRows == [date : Dates, close : Prices]

RawFrames == SeqsUpTo(RawRows, MaxRows)

NormalizedFrames ==
    {AddMetadata(raw, s, p, a) :
        raw \in RawFrames, s \in Symbols, p \in Periods, a \in AdjustOptions}

FrameLists == SeqsUpTo(NormalizedFrames, MaxFrames)

-----------------------------------------------------------------------------
(* stock.py: the table and save_stocks_to_db *)

Key(row) == <<row.symbol, row.date, row.period, row.adjust>>

init_db == EmptyBag

ConflictsWholeRow(table, row) == \E r \in BagToSet(table) : r = row

Conflicts(table, row) == \E r \in BagToSet(table) : Key(r) = Key(row)

InsertAlways(table, row) == table (+) SetToBag({row})

InsertOrReplace(table, row) ==
    LET kept == {r \in BagToSet(table) : Key(r) # Key(row)}
    IN  [r \in kept |-> table[r]] (+) SetToBag({row})

\* INSERT OR IGNORE under UNIQUE(symbol, date, period, adjust)
InsertOrIgnore(table, row) ==
    IF Conflicts(table, row) THEN table ELSE table (+) SetToBag({row})

RECURSIVE executemany(_, _)
executemany(table, rows) ==
    IF rows = <<>> THEN [table |-> table, changes |-> 0]
    ELSE LET t1 == InsertOrIgnore(table, Head(rows))
             rest == executemany(t1, Tail(rows))
         IN  [table |-> rest.table,
              changes |-> rest.changes + (IF t1 = table THEN 0 ELSE 1)]

FrameCount(total_changes) == total_changes

\* no insert of the call raises
NoRaise == <<0, 0>>

\* <<i, p>>: the executemany of frame i raises at its row p, after the rows
\* before p went in
RaisePoints(df_list) ==
    {<<i, p>> \in (1..Len(df_list)) \X (1..MaxRows + 1) : p <= Len(df_list[i])}

\* conn.rollback(): the connection commits only after the loop, so the open
\* transaction holds every insert of the call so far
Rollback(start, before_frame) == start

\* the loop over df_list from frame i on; start is the table as committed
\* when the connection was opened
RECURSIVE SaveLoop(_, _, _, _, _, _, _)
SaveLoop(start, table, df_list, i, raise_at, total_changes, total_inserted) ==
    IF i > Len(df_list)
    THEN [db |-> table, ret |-> total_inserted]
    ELSE LET df == df_list[i]
         IN  IF df = <<>>
             THEN SaveLoop(start, table, df_list, i + 1, raise_at,
                           total_changes, total_inserted)
             ELSE IF raise_at[1] = i
             THEN LET r == executemany(table, SubSeq(df, 1, raise_at[2] - 1))
                  IN  SaveLoop(start, Rollback(start, table), df_list, i + 1,
                               raise_at, total_changes + r.changes,
                               total_inserted)
             ELSE LET r == executemany(table, df)
                      tc == total_changes + r.changes
                      inserted == FrameCount(tc)
                  IN  SaveLoop(start, r.table, df_list, i + 1, raise_at, tc,
                               total_inserted + inserted)

save_stocks_to_db(table, df_list, raise_at) ==
    IF df_list = <<>> THEN [db |-> table, ret |-> 0]
    ELSE SaveLoop(table, table, df_list, 1, raise_at, 0, 0)

-----------------------------------------------------------------------------
(* stock.py: update_stock_data *)

QueryAdjust(adjust) == IF adjust # "None" THEN adjust ELSE ""

Matching(table, symbol, period, adjust) ==
    {r \in BagToSet(table) :
        r.symbol = symbol /\ r.period = period /\ r.adjust = adjust}

max_date(table, symbol, period, adjust) ==
    LET m == Matching(table, symbol, period, adjust)
    IN  IF m = {} THEN NoDate ELSE Max({r.date : r \in m})

update_stock_data_always(table, symbol, period, adjust, today) ==
    LET last_date == max_date(table, symbol, period, QueryAdjust(adjust))
        start_date == IF last_date # NoDate THEN last_date + 1 ELSE EarliestDate
    IN  [start_date |-> start_date, end_date |-> today, requested |-> TRUE]

\* requested: the function goes on to safe_fetch_stock_data(symbol,
\* start_date, end_date, ...); otherwise it returns None before any fetch
update_stock_data(table, symbol, period, adjust, today) ==
    LET last_date == max_date(table, symbol, period, QueryAdjust(adjust))
        start_date == IF last_date # NoDate THEN last_date + 1 ELSE EarliestDate
    IN  [start_date |-> start_date, end_date |-> today,
         requested |-> ~(start_date > today)]

-----------------------------------------------------------------------------
(* stock.py: REQUEST_CONFIG, add_random_delay, safe_fetch_stock_data *)

NoArg == -1         \* an argument left at its default None

DefaultMinDelay == 3
DefaultMaxDelay == 5
DefaultMaxRetries == 3
SliderMinRetries == 1
SliderMaxRetries == 5

REQUEST_CONFIG ==
    [min_delay |-> DefaultMinDelay, max_delay |-> DefaultMaxDelay,
     max_retries |-> DefaultMaxRetries]

\* the sidebar sliders, in whole seconds
MinDelayChoices == {1, 3, 5}
MaxDelayChoices == {2, 5, 10}
MaxRetriesChoices == SliderMinRetries..SliderMaxRetries

Lower(a, b) == IF a <= b THEN a ELSE b
Higher(a, b) == IF a <= b THEN b ELSE a

\* Python's "x or default": None and 0 both give the default
OrDefault(x, default) == IF x = NoArg \/ x = 0 THEN default ELSE x

OrDefaultNoneOnly(x, default) == IF x = NoArg THEN default ELSE x

\* random.uniform(a, b) lies between a and b, whichever is larger
uniform(a, b) == Lower(a, b)..Higher(a, b)

add_random_delay_unpaced(min_seconds, max_seconds, cfg) ==
    0..Higher(OrDefault(min_seconds, cfg.min_delay),
              OrDefault(max_seconds, cfg.max_delay))

\* the lengths add_random_delay may sleep
add_random_delay(min_seconds, max_seconds, cfg) ==
    uniform(OrDefault(min_seconds, cfg.min_delay),
            OrDefault(max_seconds, cfg.max_delay))

EffectiveRetriesFromConfig(max_retries, cfg) == cfg.max_retries

\* max_retries = max_retries or REQUEST_CONFIG['max_retries']
EffectiveRetries(max_retries, cfg) == OrDefault(max_retries, cfg.max_retries)

FixedWait(n) == 2

\* 2 ** n
RECURSIVE Pow2(_)
Pow2(n) == IF n = 0 THEN 1 ELSE 2 * Pow2(n - 1)

\* what one attempt can come to: the provider returns a frame that
\* process_stock_data normalizes, a frame on which it raises, an empty
\* frame or None, or the call raises
Outcomes ==
    {"frame", "frame_unprocessable", "empty", "none",
     "request_exception", "other_exception"}

NoFetch ==
    [pc |-> "idle", arg |-> NoArg, max_retries |-> 0, attempt |-> 0,
     calls |-> 0, failures |-> 0, delay |-> 0, wait |-> 0,
     outcome |-> "none", result |-> "None"]

FetchIdle ==
    /\ config = REQUEST_CONFIG
    /\ fetch = NoFetch

\* main: the sidebar sliders write REQUEST_CONFIG
Configure ==
    /\ fetch.pc = "idle"
    /\ \E mn \in MinDelayChoices, mx \in MaxDelayChoices,
          r \in MaxRetriesChoices :
          config' = [min_delay |-> mn, max_delay |-> mx, max_retries |-> r]
    /\ UNCHANGED fetch
    /\ UNCHANGED <<dbVars, proc, sym, multi, ui, usVars>>

\* safe_fetch_stock_data is entered
FetchStart ==
    /\ fetch.pc = "idle"
    /\ \E arg \in {NoArg} \cup (0..MaxRetriesArg) :
          fetch' = [NoFetch EXCEPT !.pc = "running", !.arg = arg,
                       !.max_retries = EffectiveRetries(arg, config)]
    /\ UNCHANGED config
    /\ UNCHANGED <<dbVars, proc, sym, multi, ui, usVars>>

except_clause_request_only(o) ==
    CASE o = "request_exception" -> "RequestException"
      [] o \in {"frame_unprocessable", "other_exception"} -> "uncaught"
      [] OTHER -> "no exception"

except_clause_retries_any(o) ==
    CASE o \in {"request_exception", "frame_unprocessable",
                "other_exception"} -> "RequestException"
      [] OTHER -> "no exception"

\* the except clause of the try statement that catches what an attempt came
\* to: a raise of process_stock_data is no RequestException
except_clause(o) ==
    CASE o = "request_exception" -> "RequestException"
      [] o \in {"frame_unprocessable", "other_exception"} -> "Exception"
      [] OTHER -> "no exception"

ShouldRetry(attempt, max_retries) == attempt < max_retries - 1

\* one iteration of the retry loop: the delay, the provider call and the
\* handling of what it came to; an exception no clause catches leaves the
\* function
Attempt ==
    /\ fetch.pc = "running"
    /\ fetch.attempt < fetch.max_retries
    /\ \E d \in add_random_delay(NoArg, NoArg, config), o \in Outcomes :
          LET called == [fetch EXCEPT !.delay = d, !.calls = @ + 1,
                                      !.outcome = o, !.wait = 0]
          IN  fetch' =
                CASE except_clause(o) = "no exception" ->
                       [called EXCEPT !.pc = "returned",
                           !.result = IF o = "frame" THEN "frame" ELSE "None"]
                  [] except_clause(o) = "RequestException" ->
                       IF ShouldRetry(fetch.attempt, fetch.max_retries)
                       THEN [called EXCEPT !.failures = @ + 1,
                                !.wait = Pow2(fetch.attempt + 1),
                                !.attempt = @ + 1,
                                !.pc = IF fetch.attempt + 1 < fetch.max_retries
                                       THEN "running" ELSE "returned"]
                       ELSE [called EXCEPT !.failures = @ + 1,
                                !.pc = "returned", !.result = "None"]
                  [] except_clause(o) = "Exception" ->
                       [called EXCEPT !.pc = "returned", !.result = "None"]
                  [] OTHER ->
                       [called EXCEPT !.pc = "raised", !.result = "exception"]
    /\ UNCHANGED config
    /\ UNCHANGED <<dbVars, proc, sym, multi, ui, usVars>>

\* the caller takes the result
FetchReturn ==
    /\ fetch.pc = "returned"
    /\ fetch' = NoFetch
    /\ UNCHANGED config
    /\ UNCHANGED <<dbVars, proc, sym, multi, ui, usVars>>

-----------------------------------------------------------------------------
(* stock.py: process_stock_data, the columns of the frame                  *)
(* The Chinese column names of the source are written in pinyin:           *)
(*   riqi = date, kaipan = open, shoupan = close, zuigao = high,           *)
(*   zuidi = low, chengjiaoliang = volume, chengjiaoe = amount,            *)
(*   zhenfu = amplitude, zhangdiefu = change_percent,                      *)
(*   zhangdiee = change, huanshoulv = turnover                             *)

Range(f) == {f[i] : i \in DOMAIN f}

Count(x, f) == Cardinality({i \in DOMAIN f : f[i] = x})

column_mapping(k) ==
    CASE k \in {"riqi", "trade_date", "index"} -> "date"
      [] k = "kaipan" -> "open"
      [] k = "shoupan" -> "close"
      [] k = "zuigao" -> "high"
      [] k = "zuidi" -> "low"
      [] k = "chengjiaoliang" -> "volume"
      [] k = "chengjiaoe" -> "amount"
      [] k = "zhenfu" -> "amplitude"
      [] k = "zhangdiefu" -> "change_percent"
      [] k = "zhangdiee" -> "change"
      [] k = "huanshoulv" -> "turnover"
      [] OTHER -> k

required_columns == <<"date", "open", "close", "high", "low", "volume">>

metadata_columns == <<"symbol", "period", "adjust">>

\* pandas DataFrame.reset_index: the index becomes the first column, named
\* after the index, or "index" ("level_0" when taken) for an unnamed index;
\* it raises when a column of that name exists
reset_index(df) ==
    LET name == IF df.index # None THEN df.index
                ELSE IF "index" \notin Range(df.columns) THEN "index"
                ELSE "level_0"
    IN  IF name \in Range(df.columns)
        THEN [raised |-> TRUE, columns |-> df.columns]
        ELSE [raised |-> FALSE, columns |-> <<name>> \o df.columns]

rename(columns) == [i \in DOMAIN columns |-> column_mapping(columns[i])]

\* df[col] = value: an existing column is overwritten, a new one appended
RECURSIVE SetColumns(_, _)
SetColumns(columns, names) ==
    IF names = <<>> THEN columns
    ELSE SetColumns(IF Head(names) \in Range(columns) THEN columns
                    ELSE Append(columns, Head(names)),
                    Tail(names))

\* the columns of the frame process_stock_data returns, or raised: with two
\* columns named date, df["date"] is a frame and pd.to_datetime raises
process_stock_data(df) ==
    LET r == IF "date" \notin Range(df.columns) THEN reset_index(df)
             ELSE [raised |-> FALSE, columns |-> df.columns]
        renamed == rename(r.columns)
    IN  IF r.raised THEN [raised |-> TRUE, columns |-> <<>>]
        ELSE IF Count("date", renamed) > 1
        THEN [raised |-> TRUE, columns |-> <<>>]
        ELSE [raised |-> FALSE,
              columns |-> SetColumns(SetColumns(renamed, metadata_columns),
                                     required_columns)]

\* provider schemas: column names the mapping knows, and a date column
SourceColumns ==
    {"riqi", "trade_date", "index", "date", "kaipan", "shoupan",
     "chengjiaoliang"}

IndexNames == {None, "riqi", "trade_date"}

Injective(f) == \A i, j \in DOMAIN f : f[i] = f[j] => i = j

ProviderFrames ==
    {df \in [index : IndexNames,
             columns : SeqsUpTo(SourceColumns, MaxCols)] :
        Injective(df.columns)}

NoProc ==
    [pc |-> "idle", df |-> [index |-> None, columns |-> <<>>],
     raised |-> FALSE, columns |-> <<>>]

ProcIdle == proc = NoProc

ProcInputs == {[NoProc EXCEPT !.pc = "called", !.df = df] : df \in ProviderFrames}

Process ==
    /\ proc.pc = "called"
    /\ LET r == process_stock_data(proc.df)
       IN  proc' = [proc EXCEPT !.pc = "done", !.raised = r.raised,
                                !.columns = r.columns]
    /\ UNCHANGED <<dbVars, fetchVars, sym, multi, ui, usVars>>

-----------------------------------------------------------------------------
(* stock.py: process_symbols                                               *)
(* A string is a sequence of characters; FWCOMMA is the fullwidth comma    *)
(* U+FF0C of the source.                                                   *)

Chars == {"6", "0", ",", ";", " ", "\t", "FWCOMMA"}

Whitespace == {" ", "\t"}

replace(s, old, new) == [i \in DOMAIN s |-> IF s[i] = old THEN new ELSE s[i]]

\* str.split(sep): the pieces between the separators, empty ones included
RECURSIVE split(_, _)
split(s, seps) ==
    IF \A i \in DOMAIN s : s[i] \notin seps THEN <<s>>
    ELSE LET k == CHOOSE i \in DOMAIN s :
                      s[i] \in seps /\ \A j \in 1..(i - 1) : s[j] \notin seps
         IN  <<SubSeq(s, 1, k - 1)>> \o split(SubSeq(s, k + 1, Len(s)), seps)

RECURSIVE lstrip(_)
lstrip(s) ==
    IF s # <<>> /\ Head(s) \in Whitespace THEN lstrip(Tail(s)) ELSE s

RECURSIVE rstrip(_)
rstrip(s) ==
    IF s # <<>> /\ s[Len(s)] \in Whitespace
    THEN rstrip(SubSeq(s, 1, Len(s) - 1)) ELSE s

strip(s) == rstrip(lstrip(s))

process_symbols_commas_only(symbols_str) ==
    LET pieces == split(symbols_str, {","})
    IN  {strip(pieces[i]) : i \in {j \in DOMAIN pieces : strip(pieces[j]) # <<>>}}

\* the elements of the list process_symbols returns
process_symbols(symbols_str) ==
    LET symbols == replace(replace(replace(symbols_str, "FWCOMMA", ","),
                                   ";", ","), " ", ",")
        pieces == split(symbols, {","})
    IN  {strip(pieces[i]) : i \in {j \in DOMAIN pieces : strip(pieces[j]) # <<>>}}

\* list(set(...)): the elements once each, in an order the code leaves open
Orderings(S) ==
    {f \in [1..Cardinality(S) -> S] : Range(f) = S}

NoSym == [pc |-> "idle", symbols_str |-> <<>>, symbols |-> <<>>]

SymIdle == sym = NoSym

SymInputs ==
    {[NoSym EXCEPT !.pc = "called", !.symbols_str = s] :
        s \in SeqsUpTo(Chars, MaxLen)}

Parse ==
    /\ sym.pc = "called"
    /\ \E out \in Orderings(process_symbols(sym.symbols_str)) :
          sym' = [sym EXCEPT !.pc = "done", !.symbols = out]
    /\ UNCHANGED <<dbVars, fetchVars, proc, multi, ui, usVars>>

-----------------------------------------------------------------------------
(* stock.py: fetch_multiple_stocks *)

\* what an invocation of safe_fetch_stock_data hands back: None, a frame
\* without rows, or a frame with rows
FetchResults == {"None", "empty", "frame"}

FetchLoopStopping(symbols, returned, i) ==
    IF i > Len(symbols) \/ returned[i] = "None"
    THEN [fetched |-> <<>>, results |-> <<>>, delays |-> 0]
    ELSE [fetched |-> SubSeq(symbols, i, Len(symbols)),
          results |-> <<>>, delays |-> Len(symbols) - i]

\* the loop from symbol i on: the symbols safe_fetch_stock_data is invoked
\* with, the frames appended to results, and the add_random_delay(2, 4)
\* sleeps between two symbols
RECURSIVE FetchLoop(_, _, _)
FetchLoop(symbols, returned, i) ==
    IF i > Len(symbols)
    THEN [fetched |-> <<>>, results |-> <<>>, delays |-> 0]
    ELSE LET rest == FetchLoop(symbols, returned, i + 1)
             df == returned[i]
         IN  [fetched |-> <<symbols[i]>> \o rest.fetched,
              results |->
                  (IF df # "None" /\ df # "empty"
                   THEN <<[symbol |-> symbols[i], df |-> df]>> ELSE <<>>)
                  \o rest.results,
              delays |-> rest.delays + (IF i < Len(symbols) THEN 1 ELSE 0)]

\* symbols is the list process_symbols(symbols_str) gave, returned[i] what
\* the fetch of symbols[i] hands back
fetch_multiple_stocks(symbols, returned) ==
    IF symbols = <<>>
    THEN [fetched |-> <<>>, results |-> <<>>, delays |-> 0]
    ELSE FetchLoop(symbols, returned, 1)

NoMulti ==
    [pc |-> "idle", symbols_str |-> <<>>, symbols |-> <<>>,
     returned |-> <<>>, fetched |-> <<>>, results |-> <<>>, delays |-> 0]

MultiIdle == multi = NoMulti

MultiInputs ==
    {[NoMulti EXCEPT !.pc = "called", !.symbols_str = s] :
        s \in SeqsUpTo(Chars, MaxLen)}

FetchMultiple ==
    /\ multi.pc = "called"
    /\ \E symbols \in Orderings(process_symbols(multi.symbols_str)) :
          \E returned \in [1..Len(symbols) -> FetchResults] :
             LET r == fetch_multiple_stocks(symbols, returned)
             IN  multi' = [multi EXCEPT !.pc = "done", !.symbols = symbols,
                              !.returned = returned, !.fetched = r.fetched,
                              !.results = r.results, !.delays = r.delays]
    /\ UNCHANGED <<dbVars, fetchVars, proc, sym, ui, usVars>>

-----------------------------------------------------------------------------
(* stock.py: calls on the store *)

\* the record of a call is held until the caller has taken the result
NoCall ==
    [op |-> "none", arg |-> <<>>, ret |-> 0, added |-> 0, unchanged |-> TRUE,
     symbol |-> None, period |-> None, adjust |-> None,
     start_date |-> 0, end_date |-> 0, requested |-> FALSE,
     raise_at |-> NoRaise, symbols |-> {}, failed |-> FALSE, result |-> <<>>]

SaveCall(op, table, df_list) ==
    LET r == save_stocks_to_db(table, df_list, NoRaise)
    IN  /\ db' = r.db
        /\ call' = [NoCall EXCEPT !.op = op, !.arg = df_list, !.ret = r.ret,
                       !.added = BagCardinality(r.db) - BagCardinality(table),
                       !.unchanged = (r.db = table)]

Save ==
    /\ call.op = "none"
    /\ \E df_list \in FrameLists : SaveCall("save", db, df_list)
    /\ UNCHANGED <<fetchVars, proc, sym, multi, ui, usVars>>

Resave ==
    /\ call.op = "save"
    /\ SaveCall("resave", db, call.arg)
    /\ UNCHANGED <<fetchVars, proc, sym, multi, ui, usVars>>

\* save_stocks_to_db in a run where the insert of one frame raises
SaveRaising ==
    /\ call.op = "none"
    /\ \E df_list \in FrameLists :
          \E raise_at \in RaisePoints(df_list) :
             LET r == save_stocks_to_db(db, df_list, raise_at)
             IN  /\ db' = r.db
                 /\ call' = [NoCall EXCEPT !.op = "save_raising",
                                !.arg = df_list, !.ret = r.ret,
                                !.raise_at = raise_at,
                                !.added = BagCardinality(r.db)
                                             - BagCardinality(db),
                                !.unchanged = (r.db = db)]
    /\ UNCHANGED <<fetchVars, proc, sym, multi, ui, usVars>>

Update ==
    /\ call.op = "none"
    /\ \E symbol \in Symbols, period \in Periods, adjust \in AdjustOptions,
          today \in Today :
          LET u == update_stock_data(db, symbol, period, adjust, today)
          IN  call' = [NoCall EXCEPT !.op = "update", !.symbol = symbol,
                          !.period = period, !.adjust = adjust,
                          !.start_date = u.start_date,
                          !.end_date = u.end_date,
                          !.requested = u.requested]
    /\ UNCHANGED db
    /\ UNCHANGED <<fetchVars, proc, sym, multi, ui, usVars>>

Return ==
    /\ call.op # "none"
    /\ call' = NoCall
    /\ UNCHANGED db
    /\ UNCHANGED <<fetchVars, proc, sym, multi, ui, usVars>>

DbIdle ==
    /\ db = init_db
    /\ call = NoCall

-----------------------------------------------------------------------------
(* stock.py: query_stocks_data, on a table filled by the pipeline *)

StoredSymbols == {"000001", "600000"}

\* the order of the symbols as strings
SymbolRank(symbol) == IF symbol = "000001" THEN 1 ELSE 2

\* main: adjust_options
adjust_options == {"qfq", "hfq", "None"}

\* what safe_fetch_stock_data returns for (symbol, period, adjust)
FetchedFrames ==
    {AddMetadata(raw, s, p, a) :
        raw \in SeqsUpTo([date : Dates, close : {10}], MaxRows) \ {<<>>},
        s \in StoredSymbols, p \in Periods, a \in adjust_options}

\* ORDER BY symbol, date ASC
OrderedBefore(r1, r2) ==
    \/ SymbolRank(r1.symbol) < SymbolRank(r2.symbol)
    \/ r1.symbol = r2.symbol /\ r1.date <= r2.date

RECURSIVE OrderBy(_)
OrderBy(rows) ==
    IF rows = {} THEN <<>>
    ELSE LET first == CHOOSE r \in rows : \A x \in rows : OrderedBefore(r, x)
         IN  <<first>> \o OrderBy(rows \ {first})

\* symbols is the list process_symbols(symbols_str) gives; a bound left at
\* None is not applied; the rows of the table are distinct, by their keys
query_stocks_data(table, symbols, start_date, end_date, period, adjust) ==
    IF symbols = {} THEN <<>>
    ELSE OrderBy({r \in BagToSet(table) :
                    /\ r.symbol \in symbols
                    /\ r.period = period
                    /\ r.adjust = QueryAdjust(adjust)
                    /\ start_date # NoArg => r.date >= start_date
                    /\ end_date # NoArg => r.date <= end_date})

\* a frame fetched for one (symbol, period, adjust) is saved
StoreFetched ==
    /\ call.op = "none"
    /\ \E df \in FetchedFrames :
          db' = save_stocks_to_db(db, <<df>>, NoRaise).db
    /\ UNCHANGED call
    /\ UNCHANGED <<fetchVars, proc, sym, multi, ui, usVars>>

Query ==
    /\ call.op = "none"
    /\ \E symbols \in SUBSET StoredSymbols, period \in Periods,
          adjust \in adjust_options,
          start_date \in {NoArg} \cup Dates, end_date \in {NoArg} \cup Dates :
          call' = [NoCall EXCEPT !.op = "query", !.symbols = symbols,
                      !.period = period, !.adjust = adjust,
                      !.start_date = start_date, !.end_date = end_date,
                      !.result = query_stocks_data(db, symbols, start_date,
                                                   end_date, period, adjust)]
    /\ UNCHANGED db
    /\ UNCHANGED <<fetchVars, proc, sym, multi, ui, usVars>>

\* pd.read_sql raises: the except clause gives an empty frame
QueryFails ==
    /\ call.op = "none"
    /\ call' = [NoCall EXCEPT !.op = "query", !.failed = TRUE]
    /\ UNCHANGED db
    /\ UNCHANGED <<fetchVars, proc, sym, multi, ui, usVars>>

-----------------------------------------------------------------------------
(* stock.py: main, under Streamlit's rerun model                           *)
(* Every interaction reruns the script from the top; st.button returns     *)
(* True only in the run its own click triggered; the locals of a run       *)
(* (df_list) are gone in the next.  A button can be clicked only when the  *)
(* last run rendered it.                                                   *)

FuncOptions == {"fetch", "query", "update"}

\* what fetch_multiple_stocks or update_multiple_stocks may return
ShownLists == SeqsUpTo(NormalizedFrames \ {<<>>}, Cardinality(Symbols))

button(name, trigger) == trigger = name

\* one run of the script: the page it renders, and whether it calls
\* save_stocks_to_db(df_list)
main(trigger, func_option, fetched) ==
    LET page(primary, save) ==
            IF button(primary, trigger)
            THEN IF fetched # <<>>
                 THEN [df_list |-> fetched,
                       buttons |-> {"init", primary, save},
                       save_called |-> button(save, trigger)]
                 ELSE [df_list |-> <<>>, buttons |-> {"init", primary},
                       save_called |-> FALSE]
            ELSE [df_list |-> <<>>, buttons |-> {"init", primary},
                  save_called |-> FALSE]
    IN  CASE func_option = "fetch" -> page("fetch", "save")
          [] func_option = "update" -> page("update", "save_update")
          [] OTHER -> [df_list |-> <<>>, buttons |-> {"init", "query"},
                       save_called |-> FALSE]

UiStart ==
    [func_option |-> "fetch", trigger |-> "open", offered |-> <<>>,
     df_list |-> <<>>, buttons |-> {"init", "fetch"},
     save_called |-> FALSE, saved |-> <<>>]

UiIdle == ui = UiStart

Rerun(trigger, func_option, fetched) ==
    LET r == main(trigger, func_option, fetched)
    IN  /\ ui' = [func_option |-> func_option, trigger |-> trigger,
                  offered |-> ui.df_list, df_list |-> r.df_list,
                  buttons |-> r.buttons, save_called |-> r.save_called,
                  saved |-> IF r.save_called THEN r.df_list ELSE <<>>]
        /\ db' = IF r.save_called THEN save_stocks_to_db(db, r.df_list, NoRaise).db
                 ELSE db
        /\ UNCHANGED <<call, fetchVars, proc, sym, multi, usVars>>

SelectFunction ==
    \E f \in FuncOptions \ {ui.func_option} : Rerun("select", f, <<>>)

ClickInit ==
    /\ "init" \in ui.buttons
    /\ Rerun("init", ui.func_option, <<>>)

ClickFetch ==
    /\ "fetch" \in ui.buttons
    /\ \E fetched \in ShownLists : Rerun("fetch", ui.func_option, fetched)

ClickSave ==
    /\ "save" \in ui.buttons
    /\ Rerun("save", ui.func_option, <<>>)

ClickQuery ==
    /\ "query" \in ui.buttons
    /\ Rerun("query", ui.func_option, <<>>)

ClickUpdate ==
    /\ "update" \in ui.buttons
    /\ \E fetched \in ShownLists : Rerun("update", ui.func_option, fetched)

ClickSaveUpdate ==
    /\ "save_update" \in ui.buttons
    /\ Rerun("save_update", ui.func_option, <<>>)

-----------------------------------------------------------------------------
(* US_stock.py: DataManager *)

USSymbols == {"AAPL", "MSFT"}
Names == {"Apple Inc.", "AAPL"}

init_database == {}

USKey(row) == <<row.symbol, row.date>>

\* data.to_sql(..., if_exists='append'): plain INSERT in one transaction; a
\* row that breaks UNIQUE(symbol, date) fails the whole batch
save_stock_data(table, symbol, data) ==
    LET rows == {[symbol |-> symbol, date |-> d, close |-> data[d]] :
                    d \in DOMAIN data}
    IN  IF \E r \in rows, t \in table : USKey(r) = USKey(t)
        THEN [ok |-> FALSE, table |-> table]
        ELSE [ok |-> TRUE, table |-> table \cup rows]

\* INSERT OR REPLACE on the primary key symbol
save_stock_info(table, info) ==
    {t \in table : t.symbol # info.symbol} \cup {info}

DeleteEverything(table, symbol) == {}

\* DELETE FROM <table> WHERE symbol = ?
DeleteWhere(table, symbol) == {t \in table : t.symbol # symbol}

delete_stock_data(tables, symbol) ==
    [stocks |-> DeleteWhere(tables.stocks, symbol),
     stock_info |-> DeleteWhere(tables.stock_info, symbol)]

History == UNION {[D -> Prices] : D \in (SUBSET Dates) \ {{}}}

NoUS == [op |-> "none", symbol |-> None, ok |-> TRUE, had |-> 0]

UsIdle ==
    /\ stocks = init_database
    /\ stock_info = init_database
    /\ us = NoUS

SaveInfo ==
    /\ \E symbol \in USSymbols, name \in Names :
          /\ stock_info' =
                save_stock_info(stock_info, [symbol |-> symbol, name |-> name])
          /\ us' = [NoUS EXCEPT !.op = "save_stock_info", !.symbol = symbol]
    /\ UNCHANGED <<stocks, dbVars, fetchVars, proc, sym, multi, ui>>

SaveData ==
    /\ \E symbol \in USSymbols, data \in History :
          LET r == save_stock_data(stocks, symbol, data)
          IN  /\ stocks' = r.table
              /\ us' = [NoUS EXCEPT !.op = "save_stock_data",
                           !.symbol = symbol, !.ok = r.ok]
    /\ UNCHANGED <<stock_info, dbVars, fetchVars, proc, sym, multi, ui>>

Delete ==
    /\ \E symbol \in USSymbols :
          LET r == delete_stock_data(
                       [stocks |-> stocks, stock_info |-> stock_info], symbol)
          IN  /\ stocks' = r.stocks
              /\ stock_info' = r.stock_info
              /\ us' = [NoUS EXCEPT !.op = "delete_stock_data",
                           !.symbol = symbol,
                           !.had = Cardinality(
                               {t \in stocks \cup stock_info :
                                   t.symbol = symbol})]
    /\ UNCHANGED <<dbVars, fetchVars, proc, sym, multi, ui>>

\* the connection or a statement raises: nothing is committed, False
DeleteFails ==
    /\ \E symbol \in USSymbols :
          us' = [NoUS EXCEPT !.op = "delete_stock_data", !.symbol = symbol,
                    !.ok = FALSE]
    /\ UNCHANGED <<stocks, stock_info, dbVars, fetchVars, proc, sym, multi, ui>>

-----------------------------------------------------------------------------
(* Specifications: each runs one part of the program; the rest stays idle *)

DbInit == DbIdle /\ FetchIdle /\ ProcIdle /\ SymIdle /\ UiIdle /\ UsIdle /\ MultiIdle

DbNext == Save \/ Resave \/ Update \/ Return

SpecDB == DbInit /\ [][DbNext]_vars

StoreInit == DbIdle /\ FetchIdle /\ ProcIdle /\ SymIdle /\ UiIdle /\ UsIdle /\ MultiIdle

StoreNext == SaveRaising \/ Return

SpecStore == StoreInit /\ [][StoreNext]_vars

QueryInit == DbIdle /\ FetchIdle /\ ProcIdle /\ SymIdle /\ UiIdle /\ UsIdle /\ MultiIdle

QueryNext == StoreFetched \/ Query \/ QueryFails \/ Return

SpecQuery == QueryInit /\ [][QueryNext]_vars

FetchInit == DbIdle /\ FetchIdle /\ ProcIdle /\ SymIdle /\ UiIdle /\ UsIdle /\ MultiIdle

FetchNext == Configure \/ FetchStart \/ Attempt \/ FetchReturn

SpecFetch == FetchInit /\ [][FetchNext]_vars

ProcInit ==
    DbIdle /\ FetchIdle /\ SymIdle /\ UiIdle /\ UsIdle /\ MultiIdle /\ proc \in ProcInputs

ProcNext == Process

SpecProc == ProcInit /\ [][ProcNext]_vars

SymInit ==
    DbIdle /\ FetchIdle /\ ProcIdle /\ UiIdle /\ UsIdle /\ MultiIdle /\ sym \in SymInputs

SymNext == Parse

SpecSym == SymInit /\ [][SymNext]_vars

MultiInit ==
    /\ DbIdle /\ FetchIdle /\ ProcIdle /\ SymIdle /\ UiIdle /\ UsIdle
    /\ multi \in MultiInputs

MultiNext == FetchMultiple

SpecMulti == MultiInit /\ [][MultiNext]_vars

UiInit == DbIdle /\ FetchIdle /\ ProcIdle /\ SymIdle /\ UiIdle /\ UsIdle /\ MultiIdle

UiNext ==
    \/ SelectFunction \/ ClickInit \/ ClickFetch \/ ClickSave
    \/ ClickQuery \/ ClickUpdate \/ ClickSaveUpdate

SpecUI == UiInit /\ [][UiNext]_vars

UsInit == DbIdle /\ FetchIdle /\ ProcIdle /\ SymIdle /\ UiIdle /\ UsIdle /\ MultiIdle

UsNext == SaveInfo \/ SaveData \/ Delete \/ DeleteFails

SpecUS == UsInit /\ [][UsNext]_vars

-----------------------------------------------------------------------------
(* Claims on the store of stock.py, checked under SpecDB, SpecStore and     *)
(* SpecQuery                                                               *)

RowsOfList(df_list) ==
    {df_list[i][j] : <<i, j>> \in
        {<<i, j>> \in (1..Len(df_list)) \X (1..MaxRows + 1) :
            j <= Len(df_list[i])}}

\* C1: calling save_stocks_to_db(L) a second time right after
\* save_stocks_to_db(L) leaves the rows of stock_zh_a_hist (keys and prices)
\* exactly as they were after the first call.
C1_IdempotentMerge == call.op = "resave" => call.unchanged

\* C1 witness: a list of two non-empty frames has been saved twice, and it
\* holds a row whose key is stored with another price.
C1_Witness ==
    /\ call.op = "resave"
    /\ Len(call.arg) = 2
    /\ \A i \in 1..Len(call.arg) : call.arg[i] # <<>>
    /\ \E row \in RowsOfList(call.arg) : ~BagIn(row, db)
    /\ BagCardinality(db) >= 2

\* C2: stock_zh_a_hist holds at most one row for each
\* (symbol, date, period, adjust) key.
C2_UniqueKey ==
    \A r1 \in BagToSet(db) :
        /\ CopiesIn(r1, db) = 1
        /\ \A r2 \in BagToSet(db) : Key(r1) = Key(r2) => r1 = r2

\* C2 witness: a save was offered a row whose key is stored with another
\* price, in a call that also added rows.
C2_Witness ==
    /\ call.op = "save"
    /\ call.added >= 1
    /\ \E row \in RowsOfList(call.arg) : ~BagIn(row, db) /\ Conflicts(db, row)

\* C3: for every selectable (symbol, period, adjust), adjust = "None"
\* included, when the pipeline has stored rows for the triple (rows carrying
\* the adjust value process_stock_data writes for it), update_stock_data
\* takes as start_date their maximum date plus one day.
C3_HighWaterMark ==
    call.op = "update" =>
        LET m == Matching(db, call.symbol, call.period, MetaAdjust(call.adjust))
        IN  m # {} => call.start_date = Max({r.date : r \in m}) + 1

\* C9: save_stocks_to_db returns exactly the number of rows the call added
\* to stock_zh_a_hist.
C9_ReturnsRowsAdded ==
    call.op \in {"save", "resave"} => call.ret = call.added

\* C15: insertion is by ignore, first write wins: whatever rows
\* save_stocks_to_db is given, rows with stored keys and other prices
\* included, every stored row stays in stock_zh_a_hist with all its column
\* values.
C15_FirstWriteWins ==
    [][\A r \in BagToSet(db) : CopiesIn(r, db') = CopiesIn(r, db)]_vars

\* C15 witness: a save was given only rows whose keys were stored, one of
\* them with another price than the stored row, and added nothing.
C15_Witness ==
    /\ call.op = "save"
    /\ call.arg # <<>>
    /\ call.added = 0
    /\ \E row \in RowsOfList(call.arg), r \in BagToSet(db) :
          Key(r) = Key(row) /\ r.close # row.close

\* C17: a storage failure is isolated to its own frame: when the insert of
\* one frame of the list raises inside save_stocks_to_db, every row of the
\* other frames of the call is in stock_zh_a_hist after the call (or, its
\* key having been stored before, the row stored under its key).
C17_FailureIsolated ==
    call.op = "save_raising" =>
        \A i \in (1..Len(call.arg)) \ {call.raise_at[1]} :
            \A j \in 1..Len(call.arg[i]) : Conflicts(db, call.arg[i][j])

\* C16: save then query round-trips for every adjust option: the rows the
\* pipeline stored for a (symbol, period, adjust), which carry the adjust
\* value process_stock_data writes for it, are all returned by
\* query_stocks_data called with that symbol, period and adjust and no date
\* bounds.
C16_SaveQueryRoundTrip ==
    (call.op = "query" /\ ~call.failed
        /\ call.start_date = NoArg /\ call.end_date = NoArg) =>
        \A r \in BagToSet(db) :
            (r.symbol \in call.symbols /\ r.period = call.period
                /\ r.adjust = MetaAdjust(call.adjust))
            => \E i \in 1..Len(call.result) : call.result[i] = r

\* C19: query_stocks_data returns exactly the stored rows of the requested
\* symbols whose period is the requested one, whose adjust is the value
\* stored for the requested adjust and whose date lies within the given
\* bounds (inclusive, each applied only when given), each row once, ordered
\* by symbol and then by ascending date; on a query error it returns an
\* empty frame.
C19_QueryExact ==
    call.op = "query" =>
        IF call.failed THEN call.result = <<>>
        ELSE /\ {call.result[i] : i \in 1..Len(call.result)} =
                   {r \in BagToSet(db) :
                       /\ r.symbol \in call.symbols
                       /\ r.period = call.period
                       /\ r.adjust = MetaAdjust(call.adjust)
                       /\ call.start_date # NoArg => r.date >= call.start_date
                       /\ call.end_date # NoArg => r.date <= call.end_date}
             /\ \A i, j \in 1..Len(call.result) :
                   i < j =>
                     /\ call.result[i] # call.result[j]
                     /\ OrderedBefore(call.result[i], call.result[j])

\* C11: when the start date update_stock_data computes is later than today's
\* date it returns None without a call to the data provider; the fetch is
\* requested only when start_date <= end_date.
C11_NoCallWhenUpToDate ==
    call.op = "update" =>
        /\ call.start_date > call.end_date => ~call.requested
        /\ call.requested => call.start_date <= call.end_date

\* C11 witness: rows are stored up to today or later, and an update of their
\* triple computed a start date after today and requested nothing.
C11_Witness ==
    /\ call.op = "update"
    /\ Matching(db, call.symbol, call.period, call.adjust) # {}
    /\ call.start_date = max_date(db, call.symbol, call.period, call.adjust) + 1
    /\ call.start_date > call.end_date
    /\ ~call.requested

-----------------------------------------------------------------------------
(* Claims on safe_fetch_stock_data, checked under SpecFetch *)

Between(x, a, b) == Lower(a, b) <= x /\ x <= Higher(a, b)

\* C4 as stated: an invocation makes at most max_retries provider calls,
\* max_retries being the argument, or REQUEST_CONFIG['max_retries'] when
\* none is given, and returns None when all of them fail with a request
\* exception.
C4_BoundedByArgument ==
    LET claimed == OrDefaultNoneOnly(fetch.arg, config.max_retries)
    IN  /\ fetch.calls <= claimed
        /\ (fetch.pc = "returned" /\ fetch.failures = claimed)
              => fetch.result = "None"

\* C4 amended: an invocation makes at most max_retries provider calls,
\* max_retries being the argument when it is a positive number, or
\* REQUEST_CONFIG['max_retries'] when the argument is absent or 0; while it
\* runs fewer than max_retries calls have been made, and it returns None
\* when all max_retries calls fail with a request exception.
C4_BoundedRetries ==
    LET bound == IF fetch.arg >= 1 THEN fetch.arg ELSE config.max_retries
    IN  /\ fetch.calls <= bound
        /\ fetch.pc = "running" => fetch.calls < bound
        /\ (fetch.pc = "returned" /\ fetch.failures = bound)
              => (fetch.result = "None" /\ fetch.calls = bound)

\* C4 witness: every one of three allowed calls failed with a request
\* exception and the invocation returned None.
C4_Witness ==
    /\ fetch.pc = "returned"
    /\ fetch.max_retries = 3
    /\ fetch.calls = 3
    /\ fetch.failures = 3
    /\ fetch.result = "None"

\* C7: every provider call, first attempt or retry, is preceded by a sleep of
\* add_random_delay whose length lies between REQUEST_CONFIG['min_delay'] and
\* REQUEST_CONFIG['max_delay'].
C7_PacedCalls ==
    fetch.calls > 0 =>
        Between(fetch.delay, config.min_delay, config.max_delay)

\* C7 witness: a retry (second provider call, after a backoff) was made
\* after a sleep within the configured range.
C7_Witness ==
    /\ fetch.calls = 2
    /\ fetch.failures = 1
    /\ fetch.outcome = "frame"
    /\ fetch.delay >= config.min_delay
    /\ fetch.delay <= config.max_delay

\* C12: when attempt number k (counted from 1) fails with a request
\* exception and k < max_retries, the function waits 2^k seconds before
\* attempt k+1; after the failure of the last attempt it does not wait and
\* returns None.
C12_ExponentialBackoff ==
    fetch.outcome = "request_exception" =>
        /\ fetch.calls < fetch.max_retries =>
              (fetch.pc = "running" /\ fetch.wait = 2 ^ fetch.calls)
        /\ fetch.calls = fetch.max_retries =>
              (fetch.pc = "returned" /\ fetch.wait = 0
                  /\ fetch.result = "None")

\* C12 witness: the second attempt of an invocation allowed at least three
\* failed with a request exception and the function waited 4 seconds.
C12_Witness ==
    /\ fetch.outcome = "request_exception"
    /\ fetch.calls = 2
    /\ fetch.max_retries >= 3
    /\ fetch.pc = "running"
    /\ fetch.wait = 4

\* C13: for every outcome of the provider call and of process_stock_data (a
\* frame, an empty frame, None, a request exception, any other exception)
\* the invocation of safe_fetch_stock_data ends by returning None or a
\* normalized frame, the frame exactly when the provider gave one that
\* process_stock_data normalized; no exception leaves the function, and
\* while it runs another attempt is due.
C13_CompleteErrorHandling ==
    /\ fetch.pc \in {"idle", "running", "returned"}
    /\ fetch.pc = "running" => fetch.attempt < fetch.max_retries
    /\ fetch.pc = "returned" =>
          /\ fetch.result \in {"None", "frame"}
          /\ fetch.result = "frame" <=> fetch.outcome = "frame"

\* C13 witness: process_stock_data raised on the frame of a retry and the
\* invocation returned None.
C13_Witness ==
    /\ fetch.pc = "returned"
    /\ fetch.calls = 2
    /\ fetch.outcome = "frame_unprocessable"
    /\ fetch.result = "None"

\* C14: an attempt that comes to None, to an empty frame or to an exception
\* that is no RequestException ends the invocation with None at once, and
\* every provider call but the first follows a request exception.
C14_RetryOnlyOnRequestException ==
    fetch.calls > 0 =>
        /\ fetch.outcome \in {"none", "empty", "other_exception",
                               "frame_unprocessable"} =>
              (fetch.pc = "returned" /\ fetch.result = "None")
        /\ fetch.failures >= fetch.calls - 1
        /\ fetch.pc = "running" => fetch.failures = fetch.calls

\* C14 witness: the second of at least three allowed attempts got an empty
\* frame and the invocation returned None with attempts left.
C14_Witness ==
    /\ fetch.pc = "returned"
    /\ fetch.calls = 2
    /\ fetch.failures = 1
    /\ fetch.max_retries >= 3
    /\ fetch.outcome = "empty"
    /\ fetch.result = "None"

-----------------------------------------------------------------------------
(* Claims on the pure functions of stock.py *)

\* C5: for every input frame whose columns are drawn from the mapped source
\* names (or an already named date column), process_stock_data returns a
\* frame with exactly one column named date and exactly one column each of
\* open, close, high, low, volume, symbol, period and adjust.
C5_OneTableShape ==
    proc.pc = "done" =>
        /\ ~proc.raised
        /\ \A c \in Range(required_columns) \cup Range(metadata_columns) :
              Count(c, proc.columns) = 1

SplitSeparators == {",", "FWCOMMA", ";", " "}

\* C8 as stated: for every input string the result is a list without
\* duplicates and without empty or whitespace-containing entries, whose
\* elements are the non-empty tokens obtained by splitting the input at
\* commas, semicolons and spaces.
C8_TokensOfSplit ==
    sym.pc = "done" =>
        LET pieces == split(sym.symbols_str, SplitSeparators)
        IN  /\ Injective(sym.symbols)
            /\ \A t \in Range(sym.symbols) :
                  t # <<>> /\ Range(t) \cap Whitespace = {}
            /\ Range(sym.symbols) = Range(pieces) \ {<<>>}

\* C8 amended: for every input string the result is a list without
\* duplicates, without empty entries and without entries that contain a
\* comma, semicolon or space or that begin or end with whitespace, whose
\* elements are the non-empty tokens obtained by splitting the input at
\* commas, semicolons and spaces and stripping the whitespace from both ends
\* of each token.
C8_StrippedTokensOfSplit ==
    sym.pc = "done" =>
        LET pieces == split(sym.symbols_str, SplitSeparators)
            stripped == {strip(pieces[i]) : i \in DOMAIN pieces}
        IN  /\ Injective(sym.symbols)
            /\ \A t \in Range(sym.symbols) :
                  /\ t # <<>>
                  /\ Range(t) \cap SplitSeparators = {}
                  /\ Head(t) \notin Whitespace
                  /\ t[Len(t)] \notin Whitespace
            /\ Range(sym.symbols) = stripped \ {<<>>}

\* C8 witness: an input with a separator and a tab next to it was parsed to
\* a list of one code.
C8_Witness ==
    /\ sym.pc = "done"
    /\ Len(sym.symbols_str) = 3
    /\ sym.symbols_str[2] \in SplitSeparators
    /\ sym.symbols_str[3] = "\t"
    /\ Len(sym.symbols) = 1

\* C18: fetch_multiple_stocks invokes safe_fetch_stock_data exactly once
\* for each distinct symbol of the input, whatever the fetches of the other
\* symbols hand back; the returned list holds exactly the frames with rows
\* that were obtained, at most one per distinct symbol; an input with no
\* valid symbol yields an empty list and no fetch.
C18_OneFetchPerSymbol ==
    multi.pc = "done" =>
        LET pieces == split(multi.symbols_str, SplitSeparators)
            distinct == {strip(pieces[i]) : i \in DOMAIN pieces} \ {<<>>}
            obtained == {i \in DOMAIN multi.returned :
                            multi.returned[i] = "frame"}
        IN  /\ Injective(multi.fetched)
            /\ Range(multi.fetched) = distinct
            /\ Len(multi.returned) = Len(multi.fetched)
            /\ Len(multi.results) = Cardinality(obtained)
            /\ {multi.results[k].symbol : k \in DOMAIN multi.results} =
                  {multi.fetched[i] : i \in obtained}
            /\ \A k \in DOMAIN multi.results : multi.results[k].df = "frame"
            /\ distinct = {} => (multi.fetched = <<>> /\ multi.results = <<>>)

\* C18 witness: of two symbols the fetch of the first handed back None and
\* the fetch of the second a frame, which is the one frame returned.
C18_Witness ==
    /\ multi.pc = "done"
    /\ Len(multi.fetched) = 2
    /\ multi.returned = <<"None", "frame">>
    /\ Len(multi.results) = 1
    /\ multi.results[1].symbol = multi.fetched[2]

-----------------------------------------------------------------------------
(* Claims on the dashboards *)

\* C6: once a click on the fetch (or update) button has produced a
\* non-empty result list, a click on the corresponding save button causes
\* save_stocks_to_db to be called with that result list.
C6_SaveClickSaves ==
    (ui.trigger \in {"save", "save_update"} /\ ui.offered # <<>>)
        => (ui.save_called /\ ui.saved = ui.offered)

\* C10: after a successful delete_stock_data(symbol) no row of stocks or
\* stock_info has that symbol, and every row of both tables belonging to
\* another symbol is unchanged.
C10_DeleteOnlyThatSymbol ==
    [][(us'.op = "delete_stock_data" /\ us'.ok) =>
          /\ stocks' = {t \in stocks : t.symbol # us'.symbol}
          /\ stock_info' = {t \in stock_info : t.symbol # us'.symbol}]_vars

\* C10 witness: a delete removed rows of its symbol from both tables while
\* rows of another symbol are stored in both.
C10_Witness ==
    /\ us.op = "delete_stock_data"
    /\ us.ok
    /\ us.had >= 3
    /\ stocks # {}
    /\ stock_info # {}

====
